---- MODULE Spec2Model ----
(***************************************************************************)
(* Model of the BMP180 driver, src/drivers/i2c/bmp180_driver.go.           *)
(*                                                                         *)
(* The driver keeps a calibration store, an oversampling mode and the two  *)
(* published readings.  Start loads the calibration over the bus and then  *)
(* launches a goroutine that acquires a raw temperature and a raw pressure *)
(* per cycle and stores the compensated values.                            *)
(*                                                                         *)
(* Number representation.  TLC's integers are 32 bits wide, so every Go    *)
(* int32 and uint32 value is kept as its 32-bit pattern read as a signed   *)
(* number in -2^31 .. 2^31-1 (a uint32 u >= 2^31 is kept as u - 2^32).     *)
(* The operators below compute on 16-bit halves so that no intermediate    *)
(* leaves that range; they wrap exactly as Go's fixed-width arithmetic.    *)
(***************************************************************************)
EXTENDS Integers, Sequences, FiniteSets, TLC

(***************************************************************************)
(* Register and command map (lines 11-19).                                 *)
(***************************************************************************)
bmp180Address == 119
bmp180RegisterAC1MSB == 170
bmp180RegisterCtl == 244
bmp180CmdTemp == 46
bmp180RegisterTempMSB == 246
bmp180CmdPressure == 52
bmp180RegisterPressureMSB == 246

(***************************************************************************)
(* The four named oversampling modes (lines 37-46).  The type is uint, so  *)
(* any other value can be stored as well.                                  *)
(***************************************************************************)
BMP180UltraLowPower == 0
BMP180Standard == 1
BMP180HighResolution == 2
BMP180UltraHighResolution == 3

(***************************************************************************)
(* 32-bit arithmetic.                                                      *)
(***************************************************************************)
Two16 == 256 * 256
Two30 == 32768 * 32768
MinInt32 == (-Two30) - Two30
MaxInt32 == (Two30 - 1) + Two30

Hi16(x) == x \div Two16
Lo16(x) == x % Two16
UHi16(x) == (x \div Two16) % Two16

\* The 32-bit pattern with high half h (any small integer, wrapped to 16
\* bits) and low half l in 0..65535.
Mk32(h, l) == (((h + 32768) % Two16) - 32768) * Two16 + l

\* Go's + and - on int32 / uint32.
Add32(a, b) ==
    LET s == Lo16(a) + Lo16(b)
    IN  Mk32(Hi16(a) + Hi16(b) + (s \div Two16), s % Two16)

Sub32(a, b) ==
    LET s == Lo16(a) - Lo16(b)
    IN  Mk32(Hi16(a) - Hi16(b) + (s \div Two16), s % Two16)

\* Low and high 16 bits of the product of two 16-bit unsigned numbers.
MulLo16(x, y) == (x * (y % 256) + ((x * (y \div 256)) % 256) * 256) % Two16

MulHi16(x, y) ==
    LET t1 == x * (y \div 256)
        t0 == x * (y % 256)
    IN  (t1 \div 256) + (((t1 % 256) * 256 + t0) \div Two16)

\* Go's * on int32 / uint32: the low 32 bits of the product.
Mul32(a, b) ==
    Mk32((MulHi16(Lo16(a), Lo16(b)) + MulLo16(UHi16(a), Lo16(b))
            + MulLo16(Lo16(a), UHi16(b))) % Two16,
         MulLo16(Lo16(a), Lo16(b)))

Pow2[n \in 0..30] == IF n = 0 THEN 1 ELSE 2 * Pow2[n - 1]

\* The 32-bit pattern of 2^n, n in 0..31.
Bit32(n) == IF n = 31 THEN MinInt32 ELSE Pow2[n]

\* Go's x << n on a 32-bit operand: bits shifted out are lost, a count of
\* 32 or more gives 0.
Shl32(x, n) == IF n >= 32 THEN 0 ELSE Mul32(x, Bit32(n))

\* Go's x >> n on an int32: arithmetic, sign-extending; a count of 32 or
\* more gives 0 or -1.
Sar32(x, n) ==
    IF n >= 31 THEN (IF x < 0 THEN -1 ELSE 0) ELSE x \div Pow2[n]

\* Go's x >> n on a uint32: logical.
Lsr32(x, n) ==
    IF n >= 32 THEN 0
    ELSE IF n = 0 \/ x >= 0 THEN Sar32(x, n)
    ELSE (((x \div 2) + Two30) + Two30) \div Pow2[n - 1]

\* Unsigned comparison of two uint32 patterns.
ULt32(a, b) ==
    IF (a >= 0) = (b >= 0) THEN a < b ELSE a >= 0

\* Go's / on uint32, divisor not zero.
UDiv32(x, y) ==
    IF y < 0 THEN (IF ULt32(x, y) THEN 0 ELSE 1)
    ELSE IF x >= 0 THEN x \div y
    ELSE LET h == ((x \div 2) + Two30) + Two30
             l == x % 2
             q1 == h \div y
             r1 == h % y
             extra == IF r1 + l >= y - r1 THEN 1 ELSE 0
         IN  IF q1 >= Two30
             THEN ((q1 - Two30) - Two30) * 2 + extra
             ELSE 2 * q1 + extra

\* Go's / on int32, divisor not zero: truncation toward zero; the one
\* overflowing quotient MinInt32 / -1 wraps to MinInt32.
Abs(x) == IF x < 0 THEN -x ELSE x

Div32(a, b) ==
    IF a = MinInt32
    THEN IF b = -1 \/ b = 1 THEN MinInt32
         ELSE IF b = MinInt32 THEN 1
         ELSE LET q == (MaxInt32 \div Abs(b))
                  r == MaxInt32 % Abs(b)
                  m == IF r + 1 = Abs(b) THEN q + 1 ELSE q
              IN  IF b < 0 THEN m ELSE -m
    ELSE IF b = MinInt32 THEN 0
    ELSE LET q == Abs(a) \div Abs(b)
         IN  IF (a < 0) = (b < 0) THEN q ELSE -q

\* A float32 value is kept exactly, as [mant, ulp, den]: the float32 nearest
\* to mant * ulp / den, with |mant| <= 2^24, ulp a power of two and den 1
\* or 10.  Zero is [mant |-> 0, ulp |-> 1, den |-> 1].
RECURSIVE Ulp(_)
Ulp(a) == IF a < 16777216 THEN 1 ELSE 2 * Ulp(a \div 2)

\* float32(i) for an int32 i: exact up to 2^24 in magnitude, beyond that
\* rounded to 24 significant bits, ties to even.
F32(i) ==
    IF i = MinInt32 THEN [mant |-> -8388608, ulp |-> 256, den |-> 1]
    ELSE LET a == Abs(i)
             u == Ulp(a)
             q == a \div u
             r == a % u
             up == (2 * r > u) \/ (2 * r = u /\ q % 2 = 1)
             m == IF up THEN q + 1 ELSE q
             mm == IF m = 16777216 THEN 8388608 ELSE m
             uu == IF m = 16777216 THEN 2 * u ELSE u
         IN  [mant |-> IF i < 0 THEN -mm ELSE mm, ulp |-> uu, den |-> 1]

\* f / 10 for a float32 f that came from an integer.
F32Div10(f) == IF f.mant = 0 THEN f ELSE [f EXCEPT !.den = 10]

(***************************************************************************)
(* Decoding (encoding/binary, big endian).                                 *)
(***************************************************************************)
U16(b0, b1) == b0 * 256 + b1

I16(b0, b1) == IF U16(b0, b1) >= 32768 THEN U16(b0, b1) - Two16 ELSE U16(b0, b1)

\* binary.Read of one 16-bit word at byte offset k (from 0) of buf into a
\* field holding old: with fewer than two bytes left the read fails and the
\* field keeps its value (the error is not looked at).
ReadI16(buf, k, old) ==
    IF Len(buf) >= k + 2 THEN I16(buf[k + 1], buf[k + 2]) ELSE old

\* ReadU16 into a field declared int16 instead of uint16.
ReadU16AsSigned(buf, k, old) ==
    IF Len(buf) >= k + 2 THEN I16(buf[k + 1], buf[k + 2]) ELSE old

ReadU16(buf, k, old) ==
    IF Len(buf) >= k + 2 THEN U16(buf[k + 1], buf[k + 2]) ELSE old

\* The zero value of the calibration store (line 70).
ZeroCoefficients ==
    [ac1 |-> 0, ac2 |-> 0, ac3 |-> 0, ac4 |-> 0, ac5 |-> 0, ac6 |-> 0,
     b1 |-> 0, b2 |-> 0, mb |-> 0, mc |-> 0, md |-> 0]

\* The fields of the store in the order lines 141-151 write them.
Fields ==
    <<"ac1", "ac2", "ac3", "ac4", "ac5", "ac6", "b1", "b2", "mb", "mc", "md">>

\* The k-th of the eleven reads, into a field holding old: the buffer has
\* moved on two bytes per read; ac4, ac5 and ac6 are uint16.
DecodeField(k, buf, old) ==
    IF k \in 4..6 THEN ReadU16(buf, 2 * (k - 1), old)
    ELSE ReadI16(buf, 2 * (k - 1), old)

\* Lines 140-151: the eleven reads from the buffer over the bytes returned.
DecodeCoefficients(buf, old) ==
    [ac1 |-> ReadI16(buf, 0, old.ac1),
     ac2 |-> ReadI16(buf, 2, old.ac2),
     ac3 |-> ReadI16(buf, 4, old.ac3),
     ac4 |-> ReadU16(buf, 6, old.ac4),
     ac5 |-> ReadU16(buf, 8, old.ac5),
     ac6 |-> ReadU16(buf, 10, old.ac6),
     b1 |-> ReadI16(buf, 12, old.b1),
     b2 |-> ReadI16(buf, 14, old.b2),
     mb |-> ReadI16(buf, 16, old.mb),
     mc |-> ReadI16(buf, 18, old.mc),
     md |-> ReadI16(buf, 20, old.md)]

\* Lines 164-167: the raw temperature from the bytes returned; a short
\* answer leaves the zero value.
DecodeRawTemp(buf) == ReadI16(buf, 0, 0)

(***************************************************************************)
(* Compensation (lines 181-191, 215-237).  c is the calibration store.     *)
(***************************************************************************)
B5X1(c, rawTemp) == Sar32(Mul32(Sub32(rawTemp, c.ac6), c.ac5), 15)

\* Line 189 divides by x1 + md: an integer division by zero panics.
B5Panics(c, rawTemp) == Add32(B5X1(c, rawTemp), c.md) = 0

\* Line 189's dividend, int32(mc) << 11.
B5Dividend(c) == Shl32(c.mc, 11)

\* Lines 189-190 from x1, the dividend and the md read last.
B5From(x1, dividend, md) == Add32(x1, Div32(dividend, Add32(x1, md)))

calculateB5(c, rawTemp) == B5From(B5X1(c, rawTemp), B5Dividend(c), c.md)

\* Lines 182-184 from b5.
TempFromB5(b5) == F32Div10(F32(Sar32(Add32(b5, 8), 4)))

\* (b5 + 8) >> 4, the temperature in tenths of a degree.
TempTenths(c, rawTemp) == Sar32(Add32(calculateB5(c, rawTemp), 8), 4)

calculateTemp(c, rawTemp) == F32Div10(F32(TempTenths(c, rawTemp)))

\* Lines 216-217.
PressureB6(c, rawTemp) == Sub32(calculateB5(c, rawTemp), 4000)

\* Lines 218-221, with the mode read on line 221.
PressureB3(c, b6, m) ==
    LET x1 == Sar32(Mul32(c.b2, Sar32(Mul32(b6, b6), 12)), 11)
        x2 == Sar32(Mul32(c.ac2, b6), 11)
        x3 == Add32(x1, x2)
    IN  Sar32(Add32(Shl32(Add32(Mul32(c.ac1, 4), x3), m), 2), 2)

\* Line 222.
PressureX1(c, b6) == Sar32(Mul32(c.ac3, b6), 13)

\* Lines 223-225 from the x1 of line 222.
PressureB4From(x1, c, b6) ==
    LET x2 == Sar32(Mul32(c.b1, Sar32(Mul32(b6, b6), 12)), 16)
        x3 == Sar32(Add32(Add32(x1, x2), 2), 2)
    IN  Lsr32(Mul32(c.ac4, Add32(x3, 32768)), 15)

\* Lines 222-225.
PressureB4(c, b6) == PressureB4From(PressureX1(c, b6), c, b6)

\* Line 226, with the mode read there.
PressureB7(rawPressure, b3, m) == Mul32(Sub32(rawPressure, b3), Lsr32(50000, m))

\* PressureP on a b7 and a b4 declared int32 instead of uint32: the
\* divisions are signed.
PressurePSigned(b7, b4) ==
    IF b7 >= 0 THEN Div32(Shl32(b7, 1), b4) ELSE Shl32(Div32(b7, b4), 1)

\* Lines 227-232.
PressureP(b7, b4) ==
    IF b7 >= 0 THEN UDiv32(Shl32(b7, 1), b4) ELSE Shl32(UDiv32(b7, b4), 1)

\* PressurePa with the shift of line 235 logical instead of arithmetic, as
\* it would be on an unsigned p.
PressurePaLogical(p) ==
    LET x1a == Mul32(Sar32(p, 8), Sar32(p, 8))
        x1 == Sar32(Mul32(x1a, 3038), 16)
        x2 == Lsr32(Mul32(-7357, p), 16)
    IN  Add32(p, Sar32(Add32(Add32(x1, x2), 3791), 4))

\* Lines 233-236, before the conversion to float32.
PressurePa(p) ==
    LET x1a == Mul32(Sar32(p, 8), Sar32(p, 8))
        x1 == Sar32(Mul32(x1a, 3038), 16)
        x2 == Sar32(Mul32(-7357, p), 16)
    IN  Add32(p, Sar32(Add32(Add32(x1, x2), 3791), 4))

\* Lines 226-236 from rawPressure, b3 and b4.
PressureFromB4(rawPressure, b3, b4, m) ==
    F32(PressurePa(PressureP(PressureB7(rawPressure, b3, m), b4)))

\* Lines 222-236 from the locals b6 and b3 already computed.
PressureTail(c, rawPressure, b6, b3, m) ==
    PressureFromB4(rawPressure, b3, PressureB4(c, b6), m)

\* Lines 229 and 231 divide by b4.
PressurePanics(c, rawTemp) ==
    B5Panics(c, rawTemp) \/ PressureB4(c, PressureB6(c, rawTemp)) = 0

\* The whole of calculatePressure when d.mode is m throughout.
calculatePressure(c, rawTemp, rawPressure, m) ==
    LET b6 == PressureB6(c, rawTemp)
    IN  PressureTail(c, rawPressure, b6, PressureB3(c, b6, m), m)

(***************************************************************************)
(* Pressure acquisition arithmetic (lines 194-211).                        *)
(***************************************************************************)
\* byte(d.mode << 6): the low eight bits.
ModeBits(m) == (m * 64) % 256

\* bmp180CmdPressure + byte(d.mode<<6), a byte.
PressureCommand(m) == (bmp180CmdPressure + ModeBits(m)) % 256

\* SettleTime with the case of BMP180HighResolution sleeping as the case
\* above it does.
SettleTimeRepeated(m) ==
    CASE m = BMP180UltraLowPower -> 5
      [] m = BMP180Standard -> 8
      [] m = BMP180HighResolution -> 8
      [] m = BMP180UltraHighResolution -> 26
      [] OTHER -> 0

\* The switch of lines 197-206: the wait in milliseconds, none for a value
\* that is not one of the four modes.
SettleTime(m) ==
    CASE m = BMP180UltraLowPower -> 5
      [] m = BMP180Standard -> 8
      [] m = BMP180HighResolution -> 14
      [] m = BMP180UltraHighResolution -> 26
      [] OTHER -> 0

\* 8 - uint(d.mode): unsigned, so a mode above 8 wraps to a count far above
\* 32 (kept here as 64).
ShiftCount(m) == IF m <= 8 THEN 8 - m ELSE 64

\* DecodeRawPressure without the third byte, the XLSB.
DecodeRawPressureNoXlsb(buf, m) ==
    Sar32(Add32(Shl32(buf[1], 16), Shl32(buf[2], 8)), ShiftCount(m))

\* Line 211.
DecodeRawPressure(buf, m) ==
    Sar32(Add32(Add32(Shl32(buf[1], 16), Shl32(buf[2], 8)), buf[3]), ShiftCount(m))

(***************************************************************************)
(* Inputs.  The transport (connection I2c) answers every call with an      *)
(* error or with bytes of its own choosing; the callers choose modes and   *)
(* names.                                                                  *)
(***************************************************************************)
\* At most this many acquisition steps fail, and at most this many SetMode
\* calls are made.
MaxErrors == 2
MaxSetModes == 1

\* The calls of Start: Start is called once, and in SpecRestart a second
\* time after the first call has returned.
StartCalls == {"first", "second"}

\* Mode values passed to NewBMP180Driver: the four modes and one value that
\* is none of them.
ModeInputs == {BMP180UltraLowPower, BMP180Standard, BMP180HighResolution,
               BMP180UltraHighResolution, 4}

\* Mode values passed to SetMode: one of the modes, and the value that is
\* none of them.
SetModeInputs == {BMP180HighResolution, 4}

NameInputs == {"BMP180", "probe"}

\* The datasheet's calibration block: ac1=408 ac2=-72 ac3=-14383 ac4=32741
\* ac5=32757 ac6=23153 b1=6190 b2=4 mb=-32767 mc=-8711 md=2868.
RefCalBytes ==
    <<1, 152, 255, 184, 199, 209, 127, 229, 127, 245, 90, 113,
      24, 46, 0, 4, 128, 1, 221, 249, 11, 52>>

\* Answers to the 22-byte read: the full block, and an answer two bytes
\* short (returned with a nil error).
CalAnswers == {RefCalBytes, SubSeq(RefCalBytes, 1, 20)}

\* Answers to the 2-byte read: raw temperatures 27898 and 20285, and an
\* empty answer.
TempAnswers == {<<108, 250>>, <<79, 61>>, <<>>}

\* Answers to the 3-byte read: 0x5D2300 (23843 in mode 0) and a one-byte
\* answer.
PressureAnswers == {<<93, 35, 0>>, <<93>>}

\* The datasheet's calibration as the eleven values of lines 48-60.
RefCoefficients ==
    [ac1 |-> 408, ac2 |-> -72, ac3 |-> -14383, ac4 |-> 32741, ac5 |-> 32757,
     ac6 |-> 23153, b1 |-> 6190, b2 |-> 4, mb |-> -32767, mc |-> -8711,
     md |-> 2868]

\* The calibration of a second device.
AltCoefficients ==
    [ac1 |-> 8240, ac2 |-> -1196, ac3 |-> -14709, ac4 |-> 32912,
     ac5 |-> 24959, ac6 |-> 16487, b1 |-> 6515, b2 |-> 48, mb |-> -32768,
     mc |-> -11786, md |-> 2845]

\* Every signed field x, every unsigned field y.
UniformCoefficients(x, y) ==
    [ac1 |-> x, ac2 |-> x, ac3 |-> x, ac4 |-> y, ac5 |-> y, ac6 |-> y,
     b1 |-> x, b2 |-> x, mb |-> x, mc |-> x, md |-> x]

\* A calibration whose b4 is 1, so that p is b7 doubled and passes 2^31.
UnitCoefficients ==
    [ac1 |-> 1, ac2 |-> 0, ac3 |-> 0, ac4 |-> 1, ac5 |-> 1, ac6 |-> 0,
     b1 |-> 0, b2 |-> 0, mb |-> 0, mc |-> 0, md |-> 1]

\* Calibrations a device may hold: two real ones, one with a unit divisor
\* and the ends of the ranges of int16 and uint16.
CalValues ==
    {RefCoefficients, AltCoefficients, UnitCoefficients,
     UniformCoefficients(-32768, 32768), UniformCoefficients(-1, 65535),
     UniformCoefficients(0, 0), UniformCoefficients(32767, 1)}

\* One 16-bit word as the device sends it: most significant byte first,
\* a negative value in two's complement.
EncodeWord(v) == <<(v % Two16) \div 256, v % 256>>

\* The 22 bytes at 0xAA of a device holding calibration c.
EncodeCoefficients(c) ==
    EncodeWord(c.ac1) \o EncodeWord(c.ac2) \o EncodeWord(c.ac3) \o
    EncodeWord(c.ac4) \o EncodeWord(c.ac5) \o EncodeWord(c.ac6) \o
    EncodeWord(c.b1) \o EncodeWord(c.b2) \o EncodeWord(c.mb) \o
    EncodeWord(c.mc) \o EncodeWord(c.md)

\* Scripted answers to the 2-byte read: raw temperatures 27898, 20285, 0,
\* -1, -32768 and 32767.
TempScripts ==
    {<<108, 250>>, <<79, 61>>, <<0, 0>>, <<255, 255>>, <<128, 0>>,
     <<127, 255>>}

\* Scripted answers to the 3-byte read.
PressureScripts ==
    {<<93, 35, 0>>, <<0, 0, 0>>, <<255, 255, 255>>, <<128, 0, 1>>,
     <<0, 255, 128>>, <<1, 2, 3>>, <<163, 42, 192>>, <<255, 0, 0>>,
     <<0, 255, 0>>, <<0, 0, 255>>, <<127, 255, 255>>, <<128, 0, 0>>,
     <<0, 0, 1>>, <<0, 1, 0>>, <<1, 0, 0>>, <<85, 170, 85>>}

(***************************************************************************)
(* State.                                                                  *)
(***************************************************************************)
VARIABLES
    name,                    \* d.name
    mode,                    \* d.mode
    Temperature,             \* d.Temperature, a float32
    Pressure,                \* d.Pressure, a float32
    calibrationCoefficients, \* *d.calibrationCoefficients
    start,      \* per Start call: where the call is, or what it returned
    pc,         \* per Start call: where the goroutine it launched is
    rawTemp,    \* per Start call: its local rawTemp (line 108)
    rawPressure,\* per Start call: its local rawPressure (line 109)
    err,        \* per Start call: its named result err (line 107)
    x1,         \* per goroutine: the local x1 of calculateB5, then of
                \* calculatePressure's line 222
    dividend,   \* per goroutine: int32(mc) << 11 of line 189
    b6,         \* per goroutine: calculatePressure's local b6
    b3,         \* per goroutine: calculatePressure's local b3
    published,  \* Error events published so far
    \* history, read by the properties only
    trace,      \* per goroutine: the steps of its current (or last) cycle
    used,       \* per goroutine: the d.mode values its pressure acquisition read
    preT, preP, \* per goroutine: the readings when its cycle began
    failures,   \* acquisition steps the transport has failed so far
    setModes,   \* SetMode calls so far
    calBefore,  \* the store when the last initialization began its read
    calResp,    \* what that read returned: the bytes, or CalReadError
    \* the surroundings of the driver
    script,     \* the bytes a scripted transport answers with, or NoScript
    got         \* what the caller's last read of the driver returned

devVars == <<name, mode, Temperature, Pressure, calibrationCoefficients>>
calcVars == <<x1, dividend, b6, b3>>
localVars == <<rawTemp, rawPressure, err, calcVars>>
histVars == <<trace, used, preT, preP, failures, setModes, calBefore, calResp>>
callVars == <<script, got>>
vars == <<devVars, start, pc, localVars, published, histVars, callVars>>

\* A transport that is free to answer with any of the inputs above.
NoScript ==
    [on |-> FALSE, cal |-> <<>>, recal |-> <<>>, temp |-> <<>>, pres |-> <<>>]

\* The scripted answer to the 22-byte read of Start call s: the block cal
\* to the first call, the block recal to a later one.
CalScript(s) == IF s = "first" THEN script.cal ELSE script.recal

\* The answers a read may get: the scripted bytes, or any of the free ones.
Answers(free, scripted) == IF script.on THEN {scripted} ELSE free

\* The caller has read nothing yet.
NoCall == [op |-> "none", val |-> 0, fresh |-> FALSE]

CalReadError == <<-1>>

F32Zero == [mant |-> 0, ulp |-> 1, den |-> 1]

\* One step of a cycle, for the trace.
Ev(op, x, y) == [op |-> op, x |-> x, y |-> y]

\* NewBMP180Driver (lines 63-78): the mode is the caller's, everything
\* else a zero value; no Start has been called.
NewBMP180Driver ==
    /\ name = "BMP180"
    /\ mode \in ModeInputs
    /\ Temperature = F32Zero
    /\ Pressure = F32Zero
    /\ calibrationCoefficients = ZeroCoefficients
    /\ start = [s \in StartCalls |-> "idle"]
    /\ pc = [s \in StartCalls |-> "none"]
    /\ rawTemp = [s \in StartCalls |-> 0]
    /\ rawPressure = [s \in StartCalls |-> 0]
    /\ err = [s \in StartCalls |-> "nil"]
    /\ x1 = [s \in StartCalls |-> 0]
    /\ dividend = [s \in StartCalls |-> 0]
    /\ b6 = [s \in StartCalls |-> 0]
    /\ b3 = [s \in StartCalls |-> 0]
    /\ published = 0
    /\ trace = [s \in StartCalls |-> <<>>]
    /\ used = [s \in StartCalls |-> <<>>]
    /\ preT = [s \in StartCalls |-> F32Zero]
    /\ preP = [s \in StartCalls |-> F32Zero]
    /\ failures = 0
    /\ setModes = 0
    /\ calBefore = ZeroCoefficients
    /\ calResp = <<>>
    /\ got = NoCall

\* A new driver on a transport that answers freely.
Init == NewBMP180Driver /\ script = NoScript

\* A panic in a goroutine ends the process: nothing runs afterwards.
Crashed == \E s \in StartCalls : pc[s] = "panic"

\* The transport may fail a step of an acquisition.
MayFail == failures < MaxErrors

\* The default polling interval in milliseconds (line 68).
interval == 10

(***************************************************************************)
(* Start (lines 107-129) and initialization (lines 131-153).  Start calls  *)
(* are made one after another.                                             *)
(***************************************************************************)
\* StartFailed with the return of line 111 missing: the error is reported
\* and the goroutine is launched all the same.
StartFailedLaunches(s) ==
    /\ start' = [start EXCEPT ![s] = "err"]
    /\ pc' = [pc EXCEPT ![s] = "temp_cmd"]

\* Lines 110-112 when initialization returned an error: Start returns it,
\* and no goroutine is launched.
StartFailed(s) ==
    /\ start' = [start EXCEPT ![s] = "err"]
    /\ pc' = pc

\* Lines 110 and 113 when initialization returned nil: the goroutine is
\* launched; Start has still to return.
StartSucceeded(s) ==
    /\ start' = [start EXCEPT ![s] = "returning"]
    /\ pc' = [pc EXCEPT ![s] = "temp_cmd"]

\* The call has passed its initialization and launched its goroutine.
Launched(s) == start[s] \in {"returning", "nil", "acq_err"}

\* The call has returned.
Returned(s) == start[s] \in {"err", "nil", "acq_err"}

\* The call is between two of the eleven stores of lines 141-151.
Decoding(s) == \E k \in DOMAIN Fields : start[s] = Fields[k]

\* Start is called; line 132: I2cStart.
StartOpen(s) ==
    /\ ~Crashed
    /\ start[s] = "idle"
    /\ s = "second" => Returned("first")
    /\ \/ start' = [start EXCEPT ![s] = "cal_addr"] /\ pc' = pc
       \/ StartFailed(s)
    /\ UNCHANGED <<devVars, localVars, published, histVars, callVars>>

\* Line 137 into line 171: the register address 0xAA is written.
InitAddr(s) ==
    /\ ~Crashed
    /\ start[s] = "cal_addr"
    /\ \/ start' = [start EXCEPT ![s] = "cal_read"] /\ pc' = pc
       \/ StartFailed(s)
    /\ UNCHANGED <<devVars, localVars, published, histVars, callVars>>

\* Lines 174-178 and 137-140: the 22-byte read; on an error Start returns
\* it and nothing is decoded, otherwise the bytes returned are the buffer
\* of the eleven reads that follow.
InitRead(s) ==
    /\ ~Crashed
    /\ start[s] = "cal_read"
    /\ calBefore' = calibrationCoefficients
    /\ \/ /\ calResp' = CalReadError
          /\ StartFailed(s)
       \/ \E buf \in Answers(CalAnswers, CalScript(s)) :
            /\ calResp' = buf
            /\ start' = [start EXCEPT ![s] = Fields[1]]
            /\ pc' = pc
    /\ UNCHANGED <<devVars, localVars, published,
                   trace, used, preT, preP, failures, setModes, callVars>>

\* One of lines 141-151: the next field of the store is read from the
\* buffer, the others keep what they hold; after the last one (md)
\* initialization returns nil and Start launches the goroutine.
InitDecode(s) ==
    /\ ~Crashed
    /\ \E k \in DOMAIN Fields :
          /\ start[s] = Fields[k]
          /\ calibrationCoefficients' =
                 [calibrationCoefficients EXCEPT
                     ![Fields[k]] = DecodeField(k, calResp, @)]
          /\ IF k < Len(Fields)
             THEN start' = [start EXCEPT ![s] = Fields[k + 1]] /\ pc' = pc
             ELSE StartSucceeded(s)
    /\ UNCHANGED <<name, mode, Temperature, Pressure, localVars, published,
                   histVars, callVars>>

\* Line 128: the bare return hands back the named result err, which the
\* goroutine launched on line 113 assigns on lines 115 and 120: nil, or the
\* error of an acquisition that failed before Start got here.
StartReturn(s) ==
    /\ ~Crashed
    /\ start[s] = "returning"
    /\ start' = [start EXCEPT ![s] =
           IF err[s] = "nil" THEN "nil" ELSE "acq_err"]
    /\ UNCHANGED <<devVars, pc, localVars, published, histVars, callVars>>

(***************************************************************************)
(* The goroutine of lines 113-127, one action per bus call, per read of    *)
(* d.mode and per group of reads of the calibration store.  The store is   *)
(* read field by field, in the order ac6, ac5, mc, md (calculateB5), b2,   *)
(* ac2, ac1, ac3, b1, ac4 (calculatePressure); reads that follow each      *)
(* other in the reverse of the order in which initialization writes the    *)
(* fields are one step, since a write between two of them gives what a     *)
(* write before or after both gives.  A sleep that follows a read of       *)
(* d.mode ends the step of that read.                                      *)
(***************************************************************************)
\* TempFailed with the continue of line 117 missing: the cycle goes on to
\* the pressure acquisition.
TempFailedFallsThrough(s) ==
    /\ rawTemp' = [rawTemp EXCEPT ![s] = 0]
    /\ err' = [err EXCEPT ![s] = "error"]
    /\ published' = published + 1
    /\ pc' = [pc EXCEPT ![s] = "pres_cmd"]

\* Lines 115-117: rawTemp() returned (0, err).
TempFailed(s) ==
    /\ rawTemp' = [rawTemp EXCEPT ![s] = 0]
    /\ err' = [err EXCEPT ![s] = "error"]
    /\ published' = published + 1
    /\ pc' = [pc EXCEPT ![s] = "temp_cmd"]

\* PressureFailed with the Publish of line 121 missing.
PressureFailedSilent(s) ==
    /\ rawPressure' = [rawPressure EXCEPT ![s] = 0]
    /\ err' = [err EXCEPT ![s] = "error"]
    /\ published' = published
    /\ pc' = [pc EXCEPT ![s] = "temp_cmd"]

\* Lines 120-122: rawPressure() returned (0, err).
PressureFailed(s) ==
    /\ rawPressure' = [rawPressure EXCEPT ![s] = 0]
    /\ err' = [err EXCEPT ![s] = "error"]
    /\ published' = published + 1
    /\ pc' = [pc EXCEPT ![s] = "temp_cmd"]

\* StoreTemperature moved behind the pressure acquisition: nothing is
\* stored when the temperature has been computed.
StoreTemperatureSkipped(b5) ==
    Temperature' = Temperature

\* Line 119, with lines 182-184 on the b5 of line 182.
StoreTemperature(b5) ==
    Temperature' = TempFromB5(b5)

\* Line 156: the temperature-start command is written; a cycle begins.
TempCmd(s) ==
    /\ ~Crashed
    /\ pc[s] = "temp_cmd"
    /\ used' = [used EXCEPT ![s] = <<>>]
    /\ preT' = [preT EXCEPT ![s] = Temperature]
    /\ preP' = [preP EXCEPT ![s] = Pressure]
    /\ \/ /\ pc' = [pc EXCEPT ![s] = "temp_addr"]
          /\ trace' = [trace EXCEPT ![s] =
                 <<Ev("write", bmp180RegisterCtl, bmp180CmdTemp)>>]
          /\ UNCHANGED <<rawTemp, err, published, failures>>
       \/ /\ MayFail
          /\ failures' = failures + 1
          /\ trace' = [trace EXCEPT ![s] =
                 <<Ev("err", bmp180RegisterCtl, bmp180CmdTemp)>>]
          /\ TempFailed(s)
    /\ UNCHANGED <<devVars, start, rawPressure, calcVars,
                   setModes, calBefore, calResp, callVars>>

\* Lines 159-160 into line 171: 5 ms, then the result register's address.
TempAddr(s) ==
    /\ ~Crashed
    /\ pc[s] = "temp_addr"
    /\ \/ /\ pc' = [pc EXCEPT ![s] = "temp_read"]
          /\ trace' = [trace EXCEPT ![s] = @ \o
                 <<Ev("wait", 0, 5), Ev("write", bmp180RegisterTempMSB, -1)>>]
          /\ UNCHANGED <<rawTemp, err, published, failures>>
       \/ /\ MayFail
          /\ failures' = failures + 1
          /\ trace' = [trace EXCEPT ![s] = @ \o
                 <<Ev("wait", 0, 5), Ev("err", bmp180RegisterTempMSB, -1)>>]
          /\ TempFailed(s)
    /\ UNCHANGED <<devVars, start, rawPressure, calcVars,
                   used, preT, preP, setModes, calBefore, calResp, callVars>>

\* Lines 174-178, 161-167, 115 and 188: the 2-byte read and the decoding;
\* line 115 assigns rawTemp and err; calculateTemp begins with the x1 of
\* calculateB5, which reads ac6 and ac5.
TempRead(s) ==
    /\ ~Crashed
    /\ pc[s] = "temp_read"
    /\ \/ /\ MayFail
          /\ failures' = failures + 1
          /\ trace' = [trace EXCEPT ![s] = Append(@, Ev("err", 0, 2))]
          /\ TempFailed(s)
          /\ UNCHANGED x1
       \/ \E buf \in Answers(TempAnswers, script.temp) :
            LET rt == DecodeRawTemp(buf)
            IN  /\ rawTemp' = [rawTemp EXCEPT ![s] = rt]
                /\ err' = [err EXCEPT ![s] = "nil"]
                /\ x1' = [x1 EXCEPT ![s] =
                       B5X1(calibrationCoefficients, rt)]
                /\ pc' = [pc EXCEPT ![s] = "temp_mc"]
                /\ trace' = [trace EXCEPT ![s] = Append(@, Ev("read", rt, 2))]
                /\ UNCHANGED <<published, failures>>
    /\ UNCHANGED <<devVars, start, rawPressure, dividend, b6, b3,
                   used, preT, preP, setModes, calBefore, calResp, callVars>>

\* Line 189, its left operand: mc is read and shifted.
TempMc(s) ==
    /\ ~Crashed
    /\ pc[s] = "temp_mc"
    /\ dividend' = [dividend EXCEPT ![s] = B5Dividend(calibrationCoefficients)]
    /\ pc' = [pc EXCEPT ![s] = "temp_md"]
    /\ UNCHANGED <<devVars, start, rawTemp, rawPressure, err, x1, b6, b3,
                   published, histVars, callVars>>

\* Lines 189-190, 182-184 and 119: md is read, the division by x1 + md
\* panics on zero, and the compensated temperature is stored.
TempMd(s) ==
    /\ ~Crashed
    /\ pc[s] = "temp_md"
    /\ x1' = [x1 EXCEPT ![s] = 0]
    /\ dividend' = [dividend EXCEPT ![s] = 0]
    /\ IF Add32(x1[s], calibrationCoefficients.md) = 0
       THEN /\ pc' = [pc EXCEPT ![s] = "panic"]
            /\ UNCHANGED <<Temperature, trace, got>>
       ELSE /\ pc' = [pc EXCEPT ![s] = "pres_cmd"]
            /\ StoreTemperature(B5From(x1[s], dividend[s],
                                       calibrationCoefficients.md))
            /\ got' = [got EXCEPT !.fresh = FALSE]
            /\ trace' = [trace EXCEPT ![s] = Append(@, Ev("storeT", 0, 0))]
    /\ UNCHANGED <<name, mode, Pressure, calibrationCoefficients, start,
                   rawTemp, rawPressure, err, b6, b3, published,
                   used, preT, preP, failures, setModes, calBefore, calResp,
                   script>>

\* Line 194: the pressure-start command, with d.mode in its top two bits.
PresCmd(s) ==
    /\ ~Crashed
    /\ pc[s] = "pres_cmd"
    /\ used' = [used EXCEPT ![s] = <<mode>>]
    /\ \/ /\ pc' = [pc EXCEPT ![s] = "pres_settle"]
          /\ trace' = [trace EXCEPT ![s] =
                 Append(@, Ev("write", bmp180RegisterCtl, PressureCommand(mode)))]
          /\ UNCHANGED <<rawPressure, err, published, failures>>
       \/ /\ MayFail
          /\ failures' = failures + 1
          /\ trace' = [trace EXCEPT ![s] =
                 Append(@, Ev("err", bmp180RegisterCtl, PressureCommand(mode)))]
          /\ PressureFailed(s)
    /\ UNCHANGED <<devVars, start, rawTemp, calcVars, preT, preP,
                   setModes, calBefore, calResp, callVars>>

\* Lines 197-206: the switch reads d.mode and sleeps for the time of the
\* case it selects.
PresSettle(s) ==
    /\ ~Crashed
    /\ pc[s] = "pres_settle"
    /\ used' = [used EXCEPT ![s] = Append(@, mode)]
    /\ trace' = [trace EXCEPT ![s] =
           Append(@, Ev("wait", 0, SettleTime(mode)))]
    /\ pc' = [pc EXCEPT ![s] = "pres_addr"]
    /\ UNCHANGED <<devVars, start, localVars, published, preT, preP,
                   failures, setModes, calBefore, calResp, callVars>>

\* Line 208 into line 171, after the sleep: the result register's address.
PresAddr(s) ==
    /\ ~Crashed
    /\ pc[s] = "pres_addr"
    /\ \/ /\ pc' = [pc EXCEPT ![s] = "pres_read"]
          /\ trace' = [trace EXCEPT ![s] =
                 Append(@, Ev("write", bmp180RegisterPressureMSB, -1))]
          /\ UNCHANGED <<rawPressure, err, published, failures>>
       \/ /\ MayFail
          /\ failures' = failures + 1
          /\ trace' = [trace EXCEPT ![s] =
                 Append(@, Ev("err", bmp180RegisterPressureMSB, -1))]
          /\ PressureFailed(s)
    /\ UNCHANGED <<devVars, start, rawTemp, calcVars, used, preT, preP,
                   setModes, calBefore, calResp, callVars>>

\* PressureRawTemp when line 115 declares its own rawTemp with := : the
\* variable of line 108 keeps its zero value.
PressureRawTempShadowed(s) == 0

\* Line 124: the rawTemp handed to calculatePressure, the variable of line
\* 108 that line 115 assigned in this cycle.
PressureRawTemp(s) == rawTemp[s]

\* Lines 174-178, 208-212, 120 and 188: the 3-byte read and the shift by
\* 8 - d.mode; indexing an answer shorter than three bytes panics; line 120
\* assigns rawPressure and err; calculatePressure begins with the x1 of
\* calculateB5, which reads ac6 and ac5.
PresRead(s) ==
    /\ ~Crashed
    /\ pc[s] = "pres_read"
    /\ \/ /\ MayFail
          /\ failures' = failures + 1
          /\ trace' = [trace EXCEPT ![s] = Append(@, Ev("err", 0, 3))]
          /\ PressureFailed(s)
          /\ UNCHANGED <<used, x1>>
       \/ \E buf \in Answers(PressureAnswers, script.pres) :
            /\ trace' = [trace EXCEPT ![s] = Append(@, Ev("read", 0, 3))]
            /\ IF Len(buf) < 3
               THEN /\ pc' = [pc EXCEPT ![s] = "panic"]
                    /\ UNCHANGED <<rawPressure, err, used, x1>>
               ELSE /\ pc' = [pc EXCEPT ![s] = "pres_mc"]
                    /\ rawPressure' = [rawPressure EXCEPT ![s] =
                           DecodeRawPressure(buf, mode)]
                    /\ err' = [err EXCEPT ![s] = "nil"]
                    /\ used' = [used EXCEPT ![s] = Append(@, mode)]
                    /\ x1' = [x1 EXCEPT ![s] =
                           B5X1(calibrationCoefficients, PressureRawTemp(s))]
            /\ UNCHANGED <<published, failures>>
    /\ UNCHANGED <<devVars, start, rawTemp, dividend, b6, b3, preT, preP,
                   setModes, calBefore, calResp, callVars>>

\* Line 189, its left operand, in the calculateB5 of line 216.
PresMc(s) ==
    /\ ~Crashed
    /\ pc[s] = "pres_mc"
    /\ dividend' = [dividend EXCEPT ![s] = B5Dividend(calibrationCoefficients)]
    /\ pc' = [pc EXCEPT ![s] = "pres_b3"]
    /\ UNCHANGED <<devVars, start, rawTemp, rawPressure, err, x1, b6, b3,
                   published, histVars, callVars>>

\* Lines 189-190 and 216-221: md is read and the division by x1 + md
\* panics on zero; then b6, and b3 from b2, ac2, ac1 and d.mode.
PresB3(s) ==
    /\ ~Crashed
    /\ pc[s] = "pres_b3"
    /\ x1' = [x1 EXCEPT ![s] = 0]
    /\ dividend' = [dividend EXCEPT ![s] = 0]
    /\ IF Add32(x1[s], calibrationCoefficients.md) = 0
       THEN /\ pc' = [pc EXCEPT ![s] = "panic"]
            /\ UNCHANGED <<b6, b3, used>>
       ELSE LET v == Sub32(B5From(x1[s], dividend[s],
                                  calibrationCoefficients.md), 4000)
            IN  /\ pc' = [pc EXCEPT ![s] = "pres_ac3"]
                /\ b6' = [b6 EXCEPT ![s] = v]
                /\ b3' = [b3 EXCEPT ![s] =
                       PressureB3(calibrationCoefficients, v, mode)]
                /\ used' = [used EXCEPT ![s] = Append(@, mode)]
    /\ UNCHANGED <<devVars, start, rawTemp, rawPressure, err, published,
                   trace, preT, preP, failures, setModes,
                   calBefore, calResp, callVars>>

\* Line 222: x1 from ac3.
PresAc3(s) ==
    /\ ~Crashed
    /\ pc[s] = "pres_ac3"
    /\ x1' = [x1 EXCEPT ![s] = PressureX1(calibrationCoefficients, b6[s])]
    /\ pc' = [pc EXCEPT ![s] = "pres_b7"]
    /\ UNCHANGED <<devVars, start, rawTemp, rawPressure, err, dividend,
                   b6, b3, published, histVars, callVars>>

\* Lines 223-236, 124 and 125: b4 from b1 and ac4, b7 from d.mode, the
\* division by b4, which panics on zero, the store of the pressure, and
\* the sleep for the polling interval.
PresB7(s) ==
    /\ ~Crashed
    /\ pc[s] = "pres_b7"
    /\ x1' = [x1 EXCEPT ![s] = 0]
    /\ b6' = [b6 EXCEPT ![s] = 0]
    /\ b3' = [b3 EXCEPT ![s] = 0]
    /\ used' = [used EXCEPT ![s] = Append(@, mode)]
    /\ LET b4 == PressureB4From(x1[s], calibrationCoefficients, b6[s])
       IN  IF b4 = 0
           THEN /\ pc' = [pc EXCEPT ![s] = "panic"]
                /\ UNCHANGED <<Pressure, trace, got>>
           ELSE /\ pc' = [pc EXCEPT ![s] = "temp_cmd"]
                /\ Pressure' = PressureFromB4(rawPressure[s], b3[s], b4, mode)
                /\ got' = [got EXCEPT !.fresh = FALSE]
                /\ trace' = [trace EXCEPT ![s] = @ \o
                       <<Ev("storeP", 0, 0), Ev("sleep", 0, interval)>>]
    /\ UNCHANGED <<name, mode, Temperature, calibrationCoefficients, start,
                   rawTemp, rawPressure, err, dividend, published, preT, preP,
                   failures, setModes, calBefore, calResp, script>>

(***************************************************************************)
(* The other public operations.                                            *)
(***************************************************************************)
\* SetMode that also discards the pressure measured in the old mode.
SetModeClearsPressure(m) ==
    /\ ~Crashed
    /\ setModes < MaxSetModes
    /\ mode' = m
    /\ setModes' = setModes + 1
    /\ Pressure' = F32Zero
    /\ UNCHANGED <<name, Temperature, calibrationCoefficients,
                   start, pc, localVars, published, trace, used,
                   preT, preP, failures, calBefore, calResp, callVars>>

\* Lines 101-103.
SetMode(m) ==
    /\ ~Crashed
    /\ setModes < MaxSetModes
    /\ mode' = m
    /\ setModes' = setModes + 1
    /\ UNCHANGED <<name, Temperature, Pressure, calibrationCoefficients,
                   start, pc, localVars, published, trace, used,
                   preT, preP, failures, calBefore, calResp, callVars>>

\* Lines 86-88.
SetName(n) ==
    /\ ~Crashed
    /\ name' = n
    /\ UNCHANGED <<mode, Temperature, Pressure, calibrationCoefficients,
                   start, pc, localVars, published, histVars, callVars>>

\* Lines 240-242: returns nil and does nothing else.
Halt ==
    /\ ~Crashed
    /\ UNCHANGED vars

\* A call that changes nothing and returns v: the caller now holds v.
Returns(op, v) ==
    /\ ~Crashed
    /\ got' = [op |-> op, val |-> v, fresh |-> TRUE]
    /\ UNCHANGED <<devVars, start, pc, localVars, published, histVars, script>>

\* Lines 81-83.
Name == Returns("Name", name)

\* Lines 91-93, on an adaptor that is a gobot.Connection.
Connection == Returns("Connection", "connection")

\* Lines 96-98.
Mode == Returns("Mode", mode)

\* A caller's read of the exported field Temperature (line 29).
ReadTemperature == Returns("Temperature", Temperature)

\* A caller's read of the exported field Pressure (line 28).
ReadPressure == Returns("Pressure", Pressure)

\* The steps of one Start call and of the goroutine it launches.
Call(s) ==
    \/ StartOpen(s)
    \/ InitAddr(s)
    \/ InitRead(s)
    \/ InitDecode(s)
    \/ StartReturn(s)
    \/ TempCmd(s)
    \/ TempAddr(s)
    \/ TempRead(s)
    \/ TempMc(s)
    \/ TempMd(s)
    \/ PresCmd(s)
    \/ PresSettle(s)
    \/ PresAddr(s)
    \/ PresRead(s)
    \/ PresMc(s)
    \/ PresB3(s)
    \/ PresAc3(s)
    \/ PresB7(s)

\* A driver whose Start is called once.
Next ==
    \/ Call("first")
    \/ \E m \in SetModeInputs : SetMode(m)
    \/ Halt

Spec == Init /\ [][Next]_vars

\* A driver whose Start is called again after the first call returned, on
\* a transport that fails no acquisition step; the mode is left as it was
\* constructed, BMP180UltraLowPower.
InitRestart == Init /\ mode = BMP180UltraLowPower

NextRestart == \E s \in StartCalls : Call(s) /\ failures' = failures

SpecRestart == InitRestart /\ [][NextRestart]_vars

\* What a scripted transport may answer with: one calibration block, one
\* temperature sample and one pressure sample, the same in every cycle.
Scripts ==
    {[on |-> TRUE, cal |-> EncodeCoefficients(c),
      recal |-> EncodeCoefficients(c), temp |-> t, pres |-> p] :
        c \in CalValues, t \in TempScripts, p \in PressureScripts}

\* A driver of any mode whose Start is called once on a scripted transport
\* that fails no acquisition step, and whose mode is never set again: every
\* cycle applies the decoding and the compensation to the scripted bytes.
InitCalc == NewBMP180Driver /\ script \in Scripts

NextCalc == Call("first") /\ failures' = failures

SpecCalc == InitCalc /\ [][NextCalc]_vars

\* A driver whose Start is called once, on a transport that fails no
\* acquisition step and answers with the datasheet's example, while callers
\* use every other public operation and read the two readings.
InitCalls ==
    /\ NewBMP180Driver
    /\ script = [on |-> TRUE, cal |-> RefCalBytes, recal |-> RefCalBytes,
                 temp |-> <<108, 250>>, pres |-> <<93, 35, 0>>]

NextCalls ==
    \/ Call("first") /\ failures' = failures
    \/ \E m \in SetModeInputs : SetMode(m)
    \/ \E n \in NameInputs : SetName(n)
    \/ Halt
    \/ Name
    \/ Connection
    \/ Mode
    \/ ReadTemperature
    \/ ReadPressure

SpecCalls == InitCalls /\ [][NextCalls]_vars

\* A driver in BMP180UltraLowPower whose Start is called again after the
\* first call returned, on a transport that fails no acquisition step and
\* answers the two 22-byte reads with the blocks of two devices, in either
\* order: the sensor has been exchanged between the calls.
InitReload ==
    /\ NewBMP180Driver
    /\ mode = BMP180UltraLowPower
    /\ script \in
          {[on |-> TRUE, cal |-> a, recal |-> b, temp |-> <<108, 250>>,
            pres |-> <<93, 35, 0>>] :
              a \in {EncodeCoefficients(RefCoefficients)},
              b \in {EncodeCoefficients(AltCoefficients),
                     EncodeCoefficients(RefCoefficients)}}

NextReload == \E s \in StartCalls : Call(s) /\ failures' = failures

SpecReload == InitReload /\ [][NextReload]_vars

(***************************************************************************)
(* Properties.                                                             *)
(***************************************************************************)
Events(s) == {trace[s][i] : i \in DOMAIN trace[s]}

\* The cycle of s, as far as it has run, failed in its temperature
\* acquisition: a step failed before any temperature was stored.
TempFailedIn(s) ==
    \E i \in DOMAIN trace[s] :
        /\ trace[s][i].op = "err"
        /\ \A j \in 1..(i - 1) : trace[s][j].op # "storeT"

\* It failed in its pressure acquisition: a step failed after the
\* temperature was stored.
PressureFailedIn(s) ==
    \E i \in DOMAIN trace[s] :
        /\ trace[s][i].op = "err"
        /\ \E j \in 1..(i - 1) : trace[s][j].op = "storeT"

\* A pressure-start command was sent, or tried, in the cycle: a write to
\* the control register of anything but the temperature-start command.
PressureCommandIn(s) ==
    \E e \in Events(s) :
        /\ e.op \in {"write", "err"}
        /\ e.x = bmp180RegisterCtl
        /\ e.y # bmp180CmdTemp

\* The raw temperature the bus returned in the cycle of s.
CycleRawTemp(s) ==
    (CHOOSE e \in Events(s) : e.op = "read" /\ e.y = 2).x

\* The last cycle of s is over and the next has not begun.
BetweenCycles(s) == pc[s] = "temp_cmd" /\ trace[s] # <<>>

\* C1: when the bus open or the calibration read fails, Start returns the
\* error, no goroutine exists for that call and none of its steps has run,
\* and Temperature and Pressure keep their initial values.
C1_StartFailureRunsNothing ==
    \A s \in StartCalls :
        start[s] = "err" =>
            /\ pc[s] = "none"
            /\ trace[s] = <<>>
            /\ Temperature = F32Zero
            /\ Pressure = F32Zero

\* The calibration read has failed and Start has returned the error.
C1_Witness == start["first"] = "err" /\ calResp = CalReadError

\* C2: after a cycle whose temperature acquisition succeeded and whose
\* pressure acquisition failed, Temperature is the value computed from the
\* raw temperature the bus returned in that cycle and Pressure is what it
\* was when the cycle began.
C2_PressureFailureKeepsTemperature ==
    \A s \in StartCalls :
        PressureFailedIn(s) =>
            /\ Temperature =
                   calculateTemp(calibrationCoefficients, CycleRawTemp(s))
            /\ Pressure = preP[s]

\* A pressure acquisition has failed in a cycle that changed Temperature,
\* with a Pressure stored by an earlier cycle.
C2_Witness ==
    /\ PressureFailedIn("first")
    /\ Temperature # preT["first"]
    /\ Pressure # F32Zero

\* C3: whenever a cycle is over and the next has not begun, the last thing
\* the poller did was to sleep for the polling interval.
C3_SleepBetweenCycles ==
    \A s \in StartCalls :
        BetweenCycles(s) =>
            trace[s][Len(trace[s])] = Ev("sleep", 0, interval)

\* C4: after a failed temperature acquisition the cycle has changed neither
\* Temperature nor Pressure, has sent no pressure-start command, and the
\* poller is at the top of its loop, about to begin the next cycle.
C4_TempFailureSkipsCycle ==
    \A s \in StartCalls :
        TempFailedIn(s) =>
            /\ Temperature = preT[s]
            /\ Pressure = preP[s]
            /\ ~PressureCommandIn(s)
            /\ pc[s] = "temp_cmd"

\* A temperature acquisition has failed when both readings had been stored
\* by an earlier cycle.
C4_Witness ==
    /\ TempFailedIn("first")
    /\ Temperature # F32Zero
    /\ Pressure # F32Zero

\* C5: the number of Error events published equals the number of failed
\* acquisition steps.
C5_OnePublicationPerFailure == published = failures

\* Two steps have failed, one of them in a pressure acquisition.
C5_Witness == failures >= 2 /\ PressureFailedIn("first")

\* C6: the d.mode values read within one pressure acquisition (command
\* byte, settle time, shift, B3, B7) are all the same.
C6_OneModePerAcquisition ==
    \A s \in StartCalls :
        \A i, j \in DOMAIN used[s] : used[s][i] = used[s][j]

\* All eleven coefficients hold the values of one complete 22-byte answer.
CalibrationLoaded ==
    /\ Len(calResp) >= 22
    /\ calibrationCoefficients = DecodeCoefficients(calResp, ZeroCoefficients)

\* C7: an acquisition step is taken, and a reading computed, only when the
\* calibration has been loaded.
C7_CalibratedBeforeAcquisition ==
    \/ /\ \A s \in StartCalls : trace[s] = <<>>
       /\ Temperature = F32Zero
       /\ Pressure = F32Zero
    \/ CalibrationLoaded

\* C8: once an initialization has done its read and its stores, the store
\* is either what it was before or holds all eleven values of the answer;
\* after an error it is what it was before.
C8_LoadAllOrNothing ==
    (calResp # <<>> /\ \A s \in StartCalls : ~Decoding(s)) =>
        /\ \/ calibrationCoefficients = calBefore
           \/ CalibrationLoaded
        /\ calResp = CalReadError => calibrationCoefficients = calBefore

\* A call is between the first and the last bus call of one operation.
InTransaction(s) ==
    \/ start[s] = "cal_read"
    \/ pc[s] \in {"temp_addr", "temp_read",
                 "pres_settle", "pres_addr", "pres_read"}

\* C9: at most one goroutine polls, and at most one operation is in the
\* middle of its bus calls.
C9_OnePollerNoInterleaving ==
    /\ Cardinality({s \in StartCalls : pc[s] # "none"}) <= 1
    /\ Cardinality({s \in StartCalls : InTransaction(s)}) <= 1

\* C10: a launched poller is always somewhere in its cycle: it never stops.
C10_PollerNeverStops ==
    \A s \in StartCalls : pc[s] # "panic"

(***************************************************************************)
(* The decoding and the compensation, on a scripted transport.             *)
(***************************************************************************)
\* The transport answers with the datasheet's example: its calibration
\* block, raw temperature 27898 and the pressure bytes 0x5D 0x23 0x00.
RefScript ==
    [on |-> TRUE, cal |-> RefCalBytes, recal |-> RefCalBytes,
     temp |-> <<108, 250>>, pres |-> <<93, 35, 0>>]

\* The cycle of s has stored its temperature, its pressure.
StoredT(s) == \E e \in Events(s) : e.op = "storeT"
StoredP(s) == \E e \in Events(s) : e.op = "storeP"

\* C11: with the datasheet's calibration, mode 0, raw temperature 27898
\* and raw pressure 23843 the driver stores Temperature 150 / 10 = 15.0
\* and Pressure 69964.
C11_ReferenceVector ==
    \A s \in StartCalls :
        (script = RefScript /\ mode = BMP180UltraLowPower) =>
            /\ StoredT(s) =>
                  /\ rawTemp[s] = 27898
                  /\ Temperature = [mant |-> 150, ulp |-> 1, den |-> 10]
            /\ StoredP(s) =>
                  /\ rawPressure[s] = 23843
                  /\ Pressure = [mant |-> 69964, ulp |-> 1, den |-> 1]

C11_Witness ==
    /\ script = RefScript
    /\ mode = BMP180UltraLowPower
    /\ StoredP("first")
    /\ calibrationCoefficients = RefCoefficients

\* C12: decoding the 22 bytes a device sends for any eleven in-range
\* values, most significant byte first, gives back those values in the
\* order ac1..md, ac4-ac6 as unsigned and the rest as signed words; the
\* datasheet's block gives the datasheet's calibration.
C12_DecodeRoundTrip ==
    \A s \in StartCalls :
        (script.on /\ Launched(s)) =>
            /\ calResp = script.cal
            /\ Len(calResp) = 22
            /\ \A c \in CalValues :
                  script.cal = EncodeCoefficients(c) =>
                      calibrationCoefficients = c
            /\ script.cal = RefCalBytes =>
                  calibrationCoefficients = RefCoefficients
            /\ \A f \in {"ac4", "ac5", "ac6"} :
                  calibrationCoefficients[f] \in 0..(Two16 - 1)
            /\ \A f \in {"ac1", "ac2", "ac3", "b1", "b2", "mb", "mc", "md"} :
                  calibrationCoefficients[f] \in (-32768)..32767

\* The block of a device whose signed words are all -1 and whose unsigned
\* words are all 65535 (22 bytes 0xFF) has been decoded.
C12_Witness ==
    /\ Launched("first")
    /\ script.cal = EncodeCoefficients(UniformCoefficients(-1, 65535))
    /\ calibrationCoefficients.ac1 = -1
    /\ calibrationCoefficients.ac4 = 65535

\* The bitwise or of two naturals.
RECURSIVE BitOr(_, _)
BitOr(a, b) ==
    IF a = 0 THEN b
    ELSE IF b = 0 THEN a
    ELSE (IF a % 2 = 1 \/ b % 2 = 1 THEN 1 ELSE 0)
             + 2 * BitOr(a \div 2, b \div 2)

\* The settle times of the four modes in milliseconds, from mode 0 on.
SettleTable == <<5, 8, 14, 26>>

\* The three bytes of a pressure answer as one 24-bit number.
U24(buf) == (buf[1] * 256 + buf[2]) * 256 + buf[3]

\* C13: for each mode m in 0..3 a pressure acquisition writes 0x34 | (m << 6)
\* to the control register 0xF4, then waits the settle time of m (5, 8, 14,
\* 26 ms), and shifts the 24-bit result right by 8 - m.
C13_ModeMapping ==
    \A s \in StartCalls :
        (script.on /\ mode \in 0..3) =>
            /\ \A i \in DOMAIN trace[s] :
                  (i > 1 /\ trace[s][i].op = "write" /\ trace[s][i].x = 244) =>
                      /\ trace[s][i].y = BitOr(52, mode * 64)
                      /\ (i + 1) \in DOMAIN trace[s] =>
                            trace[s][i + 1] = Ev("wait", 0, SettleTable[mode + 1])
            /\ Len(used[s]) >= 3 =>
                  rawPressure[s] = U24(script.pres) \div Pow2[8 - mode]

\* A cycle in BMP180UltraHighResolution has sent 0xF4, waited 26 ms and
\* shifted 0xFFFFFF by 5.
C13_Witness ==
    /\ mode = BMP180UltraHighResolution
    /\ script.pres = <<255, 255, 255>>
    /\ Ev("write", 244, 244) \in Events("first")
    /\ Ev("wait", 0, 26) \in Events("first")
    /\ Len(used["first"]) >= 3
    /\ rawPressure["first"] = 524287

\* C18: for result bytes b0, b1, b2 and a mode m in 0..3 the raw pressure
\* is ((b0 << 16) | (b1 << 8) | b2) >> (8 - m), which is not negative and
\* below 2^(16 + m).
C18_RawPressureValue ==
    \A s \in StartCalls :
        (script.on /\ mode \in 0..3 /\ Len(used[s]) >= 3) =>
            LET b == script.pres
                word == BitOr(BitOr(b[1] * Two16, b[2] * 256), b[3])
            IN  /\ rawPressure[s] = word \div Pow2[8 - mode]
                /\ rawPressure[s] >= 0
                /\ rawPressure[s] < Pow2[16 + mode]

\* In BMP180Standard the bytes 0x00 0x00 0xFF have given 1: the top bit of
\* the third byte is part of the sample.
C18_Witness ==
    /\ mode = BMP180Standard
    /\ script.pres = <<0, 0, 255>>
    /\ Len(used["first"]) >= 3
    /\ rawPressure["first"] = 1

\* An arithmetic right shift of a signed 32-bit value: the floor of the
\* quotient by 2^n.
FloorShift(x, n) == x \div Pow2[n]

\* The published algorithm from B5 on: B6, X1..X3 and B3, X1..X3 and B4,
\* B7 and P, and the pressure in Pa.  Signed intermediates wrap to 32 bits,
\* B4 and B7 are unsigned 32-bit patterns.
AlgorithmPressure(c, b5, up, m) ==
    LET B6 == Sub32(b5, 4000)
        B6sq == FloorShift(Mul32(B6, B6), 12)
        X1 == FloorShift(Mul32(c.b2, B6sq), 11)
        X2 == FloorShift(Mul32(c.ac2, B6), 11)
        X3 == Add32(X1, X2)
        B3 == FloorShift(Add32(Shl32(Add32(Mul32(c.ac1, 4), X3), m), 2), 2)
        Y1 == FloorShift(Mul32(c.ac3, B6), 13)
        Y2 == FloorShift(Mul32(c.b1, B6sq), 16)
        Y3 == FloorShift(Add32(Add32(Y1, Y2), 2), 2)
        B4 == Lsr32(Mul32(c.ac4, Add32(Y3, 32768)), 15)
        B7 == Mul32(Sub32(up, B3), 50000 \div Pow2[m])
        below == B7 >= 0
        P == IF below THEN UDiv32(Shl32(B7, 1), B4)
             ELSE Shl32(UDiv32(B7, B4), 1)
        Z1 == FloorShift(Mul32(Mul32(FloorShift(P, 8), FloorShift(P, 8)), 3038), 16)
        Z2 == FloorShift(Mul32(-7357, P), 16)
    IN  [below |-> below, p |-> P,
         pa |-> Add32(P, FloorShift(Add32(Add32(Z1, Z2), 3791), 4))]

\* C19: for a mode in 0..3, the pressure the driver stores is the published
\* algorithm's steps from B6 to the pressure, on the cycle's raw temperature
\* and raw pressure: signed 32-bit intermediates, arithmetic shifts, B4 and
\* B7 unsigned modulo 2^32, P = (B7 << 1) / B4 when B7 < 0x80000000 and
\* (B7 / B4) << 1 otherwise, read as a signed 32-bit value.
C19_PressureFollowsAlgorithm ==
    \A s \in StartCalls :
        (script.on /\ mode \in 0..3 /\ StoredP(s)) =>
            Pressure = F32(AlgorithmPressure(calibrationCoefficients,
                               calculateB5(calibrationCoefficients, rawTemp[s]),
                               rawPressure[s], mode).pa)

\* A pressure has been stored whose B7 was at or above 0x80000000 and whose
\* P is negative as a signed value, beyond what a float32 holds exactly.
C19_Witness ==
    /\ mode \in 0..3
    /\ script.on
    /\ StoredP("first")
    /\ Pressure.ulp > 1
    /\ LET a == AlgorithmPressure(calibrationCoefficients,
                    calculateB5(calibrationCoefficients, rawTemp["first"]),
                    rawPressure["first"], mode)
       IN  ~a.below /\ a.p < 0 /\ a.pa < 0

(***************************************************************************)
(* The order of a cycle's bus steps.                                       *)
(***************************************************************************)
IsBusStep(e) == e.op \in {"write", "wait", "read", "err"}

\* The writes, waits and reads of the cycle of s, tried or done, in order.
BusSteps(s) == SelectSeq(trace[s], IsBusStep)

\* e is a write of bytes to register reg, done or failed.
WriteTo(e, reg) == e.op \in {"write", "err"} /\ e.x = reg

\* e is a read of n bytes, done or failed.
ReadOf(e, n) == e.op \in {"read", "err"} /\ e.y = n

\* e may be the i-th bus step of a cycle whose pressure acquisition read
\* the modes ms so far.
StepInOrder(i, e, ms) ==
    CASE i = 1 -> WriteTo(e, 244) /\ e.y = 46
      [] i = 2 -> e = Ev("wait", 0, 5)
      [] i = 3 -> WriteTo(e, 246) /\ e.y = -1
      [] i = 4 -> ReadOf(e, 2)
      [] i = 5 -> WriteTo(e, 244) /\ e.y \in {52, 116, 180, 244}
      [] i = 6 -> /\ e.op = "wait"
                  /\ ms[2] \in 0..3 => e.y = SettleTable[ms[2] + 1]
      [] i = 7 -> WriteTo(e, 246) /\ e.y = -1
      [] i = 8 -> ReadOf(e, 3)
      [] OTHER -> FALSE

\* C14: the bus steps of a cycle come in one order: write [0xF4, 0x2E],
\* wait 5 ms, write [0xF6], read 2 bytes, write [0xF4, pressure command],
\* wait the settle time of the mode, write [0xF6], read 3 bytes; a failed
\* step ends the cycle, and the pressure command is written only after the
\* cycle's 2-byte read has returned.
C14_CycleOrder ==
    \A s \in StartCalls :
        LET t == BusSteps(s)
        IN  \A i \in DOMAIN t :
                /\ StepInOrder(i, t[i], used[s])
                /\ t[i].op = "err" => i = Len(t)
                /\ (i > 1 /\ WriteTo(t[i], 244)) =>
                      \E j \in 1..(i - 1) : t[j].op = "read" /\ t[j].y = 2

\* A whole cycle in BMP180HighResolution: eight bus steps, the last the
\* 3-byte read, with a wait of 14 ms before the second address write.
C14_Witness ==
    /\ Len(BusSteps("first")) = 8
    /\ BusSteps("first")[6] = Ev("wait", 0, 14)
    /\ BusSteps("first")[8].op = "read"
    /\ StoredP("first")

(***************************************************************************)
(* What the public operations leave alone.                                 *)
(***************************************************************************)
\* The step stores a temperature (line 119), a pressure (line 124).
StoresTemperature ==
    \E s \in StartCalls : pc[s] = "temp_md" /\ pc'[s] = "pres_cmd"
StoresPressure ==
    \E s \in StartCalls : pc[s] = "pres_b7" /\ pc'[s] = "temp_cmd"

\* The caller's last read was of reading r and no store has happened since.
HoldsFresh(g, r) == g.op = r /\ g.fresh

\* C15: Temperature and Pressure change only in the poller's store steps;
\* Name, SetName, Mode, SetMode, Halt, Connection and reads of the readings
\* leave them as they are, a read repeated with no store in between returns
\* the same value, and SetMode changes nothing but the mode.
C15_ReadingsFrame ==
    [][ /\ Temperature' # Temperature => StoresTemperature
        /\ Pressure' # Pressure => StoresPressure
        /\ (pc' = pc /\ start' = start) =>
              UNCHANGED <<Temperature, Pressure>>
        /\ setModes' # setModes =>
              UNCHANGED <<name, Temperature, Pressure,
                          calibrationCoefficients, start, pc, localVars,
                          published>>
        /\ HoldsFresh(got', "Temperature") => got'.val = Temperature'
        /\ HoldsFresh(got', "Pressure") => got'.val = Pressure'
        /\ (HoldsFresh(got, "Temperature") /\ HoldsFresh(got', "Temperature"))
              => got'.val = got.val
        /\ (HoldsFresh(got, "Pressure") /\ HoldsFresh(got', "Pressure"))
              => got'.val = got.val
      ]_vars

\* After a pressure was stored, the name and the mode were set and the
\* pressure was read; no store has happened since the read.
C15_Witness ==
    /\ HoldsFresh(got, "Pressure")
    /\ got.val # F32Zero
    /\ Temperature # F32Zero
    /\ name = "probe"
    /\ setModes > 0

(***************************************************************************)
(* The calibration store after the first load.                             *)
(***************************************************************************)
\* What the first Start call's load put into the store.
FirstLoad == DecodeCoefficients(script.cal, ZeroCoefficients)

\* C16: once a Start call has loaded the calibration, the store keeps what
\* that load put there: no cycle and no later Start call changes a
\* coefficient.
C16_LoadedOnce ==
    (script.on /\ Launched("first")) =>
        calibrationCoefficients = FirstLoad

(***************************************************************************)
(* The temperature sample behind a stored pressure.                        *)
(***************************************************************************)
\* C17: a stored Pressure comes from the B5 of the raw temperature the bus
\* returned in the same cycle, the sample the cycle's stored Temperature
\* comes from as well.
C17_PressureUsesCycleTemperature ==
    \A s \in StartCalls :
        StoredP(s) =>
            LET rt == CycleRawTemp(s)
                b6v == PressureB6(calibrationCoefficients, rt)
                b3v == PressureB3(calibrationCoefficients, b6v, used[s][4])
            IN  /\ Temperature = calculateTemp(calibrationCoefficients, rt)
                /\ Pressure = PressureTail(calibrationCoefficients,
                                  rawPressure[s], b6v, b3v, used[s][5])

\* A cycle has stored a pressure after an earlier cycle had stored another
\* temperature, from another sample.
C17_Witness ==
    /\ StoredP("first")
    /\ preT["first"] # F32Zero
    /\ preT["first"] # Temperature
    /\ Pressure # preP["first"]

(***************************************************************************)
(* The values the mode takes.                                              *)
(***************************************************************************)
\* C20: the mode is one of 0, 1, 2, 3 in every state, and so is every mode
\* a pressure acquisition has read: each acquisition has a settle time and
\* shifts by 8 - mode, a count in 5..8.
C20_ModeInRange ==
    /\ mode \in 0..3
    /\ \A s \in StartCalls :
          \A i \in DOMAIN used[s] :
              /\ used[s][i] \in 0..3
              /\ SettleTime(used[s][i]) > 0
              /\ ShiftCount(used[s][i]) \in 5..8

=============================================================================
